---- MODULE Spec2Model ----
(***************************************************************************)
(* The in-memory person store of the Rocket service: the RwLock-guarded    *)
(* Vec<Person> of AppState (src/src/main.rs) and the five handlers that     *)
(* lock it (src/src/routes.rs).  Every handler runs on its own worker; a    *)
(* worker's steps are the statements of the handler it is running.         *)
(***************************************************************************)
EXTENDS Integers, Sequences, FiniteSets, TLC

\* ------------------------------------------------------------------ bounds
\* Requests the HTTP layer dispatches in one run.
MaxRequests == 2

\* Requests dispatched in one run of the writers alone (SpecRace).
MaxRaceRequests == 3

\* The workers of the HTTP layer that run handlers concurrently.
NumWorkers == 2

Workers == 1..NumWorkers

\* Values a request may carry.  Ids are u32 path parameters / body fields.
Ids == {1, 2, 42}
\* The name/age/date contents a body may carry: they differ in every field, so
\* a record mixing two of them is a half-applied update.
Contents ==
  { [name |-> "X", age |-> 30, date |-> "2024-01-01T00:00:00Z"],
    [name |-> "Y", age |-> 31, date |-> "2024-02-02T00:00:00Z"] }

\* ------------------------------------------------------------- data model
Person ==
  { [id |-> i, name |-> c.name, age |-> c.age, date |-> c.date] :
      i \in Ids, c \in Contents }

NoPerson == [id |-> 0, name |-> "", age |-> 0, date |-> ""]

\* No worker.
None == 0

\* HTTP statuses the handlers return (0: no response yet).
NoStatus == 0
Ok == 200
Created == 201
NoContent == 204
NotFound == 404
Conflict == 409
InternalServerError == 500

\* person::create_person_collection(): the fixed seed of the collection.
create_person_collection ==
  << [id |-> 1, name |-> "X", age |-> 30, date |-> "2024-01-01T00:00:00Z"],
     [id |-> 2, name |-> "Y", age |-> 31, date |-> "2024-02-02T00:00:00Z"] >>

VARIABLES
  person_collection,  \* the Vec<Person> inside the RwLock
  writer,             \* the worker holding the write guard, or None
  readers,            \* the workers holding a read guard
  poisoned,           \* the RwLock's poison flag
  pc,                 \* each worker's position in its handler
  req,                \* each worker's request
  idx,                \* each worker's local: the position found / filtered flag
  resp,               \* each worker's response
  served,             \* requests dispatched so far
  pre,                \* history: the collection when the write guard was taken
  created,            \* history: id -> the record a 201 stored, until updated/deleted
  tally,              \* history: id -> 201s minus Delete 204s, and the record of the
                      \* last 201 since the last Delete 204
  raced               \* history: the worker's request is a Create that was in
                      \* flight when another Create of its id returned 201,
                      \* with no Delete 204 of the id since

vars == << person_collection, writer, readers, poisoned, pc, req, idx, resp,
           served, pre, created, tally, raced >>

NoReq == [op |-> "none", id |-> 0, person |-> NoPerson]
NoResp == [status |-> NoStatus, person |-> NoPerson, list |-> << >>]

\* The requests the HTTP layer can hand to a handler (well-formed ones only:
\* malformed ids and bodies are rejected before any handler runs).
Requests ==
  {[op |-> o, id |-> 0, person |-> NoPerson] :
     o \in {"landing_page", "health", "persons"}}
  \cup {[op |-> o, id |-> i, person |-> NoPerson] :
          o \in {"single_person", "delete_person"}, i \in Ids}
  \cup {[op |-> o, id |-> 0, person |-> x] :
          o \in {"add_person", "update_person"}, x \in Person}

\* --------------------------------------------------------- pure operators
\* Mutant of AnyId: the scan stops after the first element.
AnyIdFirstOnly(coll, id) == Len(coll) > 0 /\ coll[1].id = id

\* iter().any(|t| t.id == id)
AnyId(coll, id) == \E k \in 1..Len(coll) : coll[k].id = id

\* Mutant of Position: the scan stops one element short of the end.
PositionMissesLast(coll, id) ==
  LET hits == {k \in 1..(Len(coll) - 1) : coll[k].id = id}
  IN IF hits = {} THEN 0 ELSE CHOOSE k \in hits : \A j \in hits : k <= j

\* iter().position(|t| t.id == id) / iter().find(..): first match, 0 for None
Position(coll, id) ==
  LET hits == {k \in 1..Len(coll) : coll[k].id = id}
  IN IF hits = {} THEN 0 ELSE CHOOSE k \in hits : \A j \in hits : k <= j

\* Mutant of Push: the record goes to the front.
PushFront(coll, x) == << x >> \o coll

\* Mutant of Push: the date is stored as a bare day, not verbatim.
PushReformatsDate(coll, x) == Append(coll, [x EXCEPT !.date = "2024-01-01"])

\* Vec::push
Push(coll, x) == Append(coll, x)

\* Mutant of Remove: Vec::swap_remove, the last element fills the gap.
SwapRemove(coll, k) ==
  [j \in 1..(Len(coll) - 1) |-> IF j = k THEN coll[Len(coll)] ELSE coll[j]]

\* Vec::remove(index): shifts the elements after index to the left
Remove(coll, k) == [j \in 1..(Len(coll) - 1) |-> IF j < k THEN coll[j] ELSE coll[j + 1]]

\* -------------------------------------------------------------- the lock
\* Mutant of CanRead: a reader does not wait for the writer.
CanReadAlways == TRUE

\* RwLock::read blocks while a writer holds the lock.
CanRead == writer = None

\* Mutant of CanWrite: a writer does not wait for the readers.
CanWriteIgnoresReaders == writer = None

\* Mutant of CanWrite: a writer does not wait for another writer.
CanWriteIgnoresWriter == readers = {}

\* RwLock::write blocks while anybody holds the lock.
CanWrite == writer = None /\ readers = {}

\* Mutant of LockResult: the poison flag is ignored.
LockResultIgnoresPoison == "Ok"

\* The poison check of read()/write(): Err when a writer panicked.
LockResult == IF poisoned THEN "Err" ELSE "Ok"

Respond(p, st, person, list) ==
  resp' = [resp EXCEPT ![p] = [status |-> st, person |-> person, list |-> list]]

\* state.person_collection.read().map_err(|_| Status::InternalServerError)?
ReadLock(p, next) ==
  /\ CanRead
  /\ IF LockResult = "Err"
       THEN /\ Respond(p, InternalServerError, NoPerson, << >>)
            /\ pc' = [pc EXCEPT ![p] = "done"]
            /\ req' = [req EXCEPT ![p] = NoReq]
            /\ UNCHANGED readers
       ELSE /\ readers' = readers \cup {p}
            /\ pc' = [pc EXCEPT ![p] = next]
            /\ UNCHANGED << resp, req >>
  /\ UNCHANGED << person_collection, writer, poisoned, idx, served, pre, created, tally, raced >>

\* state.person_collection.write().map_err(|_| Status::InternalServerError)?
WriteLock(p, next) ==
  /\ CanWrite
  /\ IF LockResult = "Err"
       THEN /\ Respond(p, InternalServerError, NoPerson, << >>)
            /\ pc' = [pc EXCEPT ![p] = "done"]
            /\ req' = [req EXCEPT ![p] = NoReq]
            /\ UNCHANGED << writer, pre >>
       ELSE /\ writer' = p
            /\ pre' = person_collection
            /\ pc' = [pc EXCEPT ![p] = next]
            /\ UNCHANGED << resp, req >>
  /\ UNCHANGED << person_collection, readers, poisoned, idx, served, created, tally, raced >>

\* Mutant of Return: the read guard is leaked (never dropped).
ReturnLeaksReadGuard(p) ==
  /\ pc[p] = "ret"
  /\ writer' = IF writer = p THEN None ELSE writer
  /\ pre' = IF writer = p THEN << >> ELSE pre
  /\ pc' = [pc EXCEPT ![p] = "done"]
  /\ req' = [req EXCEPT ![p] = NoReq]
  /\ idx' = [idx EXCEPT ![p] = 0]
  /\ UNCHANGED << person_collection, readers, poisoned, resp, served, created, tally, raced >>

\* Mutant of Return: the write guard is leaked (never dropped).
ReturnLeaksWriteGuard(p) ==
  /\ pc[p] = "ret"
  /\ readers' = readers \ {p}
  /\ pc' = [pc EXCEPT ![p] = "done"]
  /\ req' = [req EXCEPT ![p] = NoReq]
  /\ idx' = [idx EXCEPT ![p] = 0]
  /\ UNCHANGED << person_collection, writer, pre, poisoned, resp, served, created,
                  tally, raced >>

\* The guard is dropped as the handler returns its result.
Return(p) ==
  /\ pc[p] = "ret"
  /\ readers' = readers \ {p}
  /\ writer' = IF writer = p THEN None ELSE writer
  /\ pre' = IF writer = p THEN << >> ELSE pre
  /\ pc' = [pc EXCEPT ![p] = "done"]
  /\ req' = [req EXCEPT ![p] = NoReq]
  /\ idx' = [idx EXCEPT ![p] = 0]
  /\ UNCHANGED << person_collection, poisoned, resp, served, created, tally, raced >>

\* ------------------------------------------------------------ the handlers
\* The HTTP layer routes one of the requests R to a free worker, while fewer
\* than cap requests have been dispatched.
ReceiveFrom(p, R, cap) ==
  /\ pc[p] \in {"idle", "done"}
  /\ served < cap
  /\ \E r \in R : req' = [req EXCEPT ![p] = r]
  /\ served' = served + 1
  /\ pc' = [pc EXCEPT ![p] = "lock"]
  /\ resp' = [resp EXCEPT ![p] = NoResp]
  /\ raced' = [raced EXCEPT ![p] = FALSE]
  /\ UNCHANGED << person_collection, writer, readers, poisoned, idx, pre, created,
                  tally >>

Receive(p) == ReceiveFrom(p, Requests, MaxRequests)

\* GET /: the greeting and the clock reading; no access to person_collection.
\* (pc "lock" is the handler's entry; this handler has no lock call.)
landing_page(p) ==
  /\ req[p].op = "landing_page"
  /\ pc[p] = "lock"
  /\ Respond(p, Ok, NoPerson, << >>)
  /\ pc' = [pc EXCEPT ![p] = "done"]
  /\ req' = [req EXCEPT ![p] = NoReq]
  /\ UNCHANGED << person_collection, writer, readers, poisoned, idx, served, pre,
                  created, tally, raced >>

\* Mutant of health: the handler takes the read lock before it answers.
healthTakesReadLock(p) ==
  /\ req[p].op = "health"
  /\ pc[p] = "lock"
  /\ writer = None
  /\ Respond(p, IF poisoned THEN InternalServerError ELSE Ok, NoPerson, << >>)
  /\ pc' = [pc EXCEPT ![p] = "done"]
  /\ req' = [req EXCEPT ![p] = NoReq]
  /\ UNCHANGED << person_collection, writer, readers, poisoned, idx, served, pre,
                  created, tally, raced >>

\* GET /health: the literal "OK"; the handler does not even take the state.
health(p) ==
  /\ req[p].op = "health"
  /\ pc[p] = "lock"
  /\ Respond(p, Ok, NoPerson, << >>)
  /\ pc' = [pc EXCEPT ![p] = "done"]
  /\ req' = [req EXCEPT ![p] = NoReq]
  /\ UNCHANGED << person_collection, writer, readers, poisoned, idx, served, pre,
                  created, tally, raced >>

\* GET /api/persons
persons(p) ==
  /\ req[p].op = "persons"
  /\ \/ /\ pc[p] = "lock"
        /\ ReadLock(p, "clone")
     \/ /\ pc[p] = "clone"
        /\ Respond(p, Ok, NoPerson, person_collection)
        /\ pc' = [pc EXCEPT ![p] = "ret"]
        /\ UNCHANGED << person_collection, writer, readers, poisoned, req, idx,
                        served, pre, created, tally, raced >>

\* GET /api/person/<id>
single_person(p) ==
  /\ req[p].op = "single_person"
  /\ \/ /\ pc[p] = "lock"
        /\ ReadLock(p, "find")
     \/ /\ pc[p] = "find"
        /\ LET k == Position(person_collection, req[p].id)
           IN IF k # 0
                THEN Respond(p, Ok, person_collection[k], << >>)
                ELSE Respond(p, NotFound, NoPerson, << >>)
        /\ pc' = [pc EXCEPT ![p] = "ret"]
        /\ UNCHANGED << person_collection, writer, readers, poisoned, req, idx,
                        served, pre, created, tally, raced >>

\* POST /api/person
add_person(p) ==
  /\ req[p].op = "add_person"
  /\ \/ /\ pc[p] = "lock"
        /\ WriteLock(p, "any")
     \/ /\ pc[p] = "any"
        /\ idx' = [idx EXCEPT ![p] =
                     IF AnyId(person_collection, req[p].person.id) THEN 1 ELSE 0]
        /\ pc' = [pc EXCEPT ![p] = "push"]
        /\ UNCHANGED << person_collection, writer, readers, poisoned, req, resp,
                        served, pre, created, tally, raced >>
     \/ /\ pc[p] = "push"
        /\ IF idx[p] = 0
             THEN /\ person_collection' = Push(person_collection, req[p].person)
                  /\ created' = [created EXCEPT ![req[p].person.id] = req[p].person]
                  /\ tally' = [tally EXCEPT ![req[p].person.id] =
                                 [net |-> @.net + 1, payload |-> req[p].person]]
                  /\ raced' = [q \in Workers |->
                                 \/ raced[q]
                                 \/ /\ q # p
                                    /\ pc[q] \notin {"idle", "done"}
                                    /\ req[q].op = "add_person"
                                    /\ req[q].person.id = req[p].person.id]
                  /\ Respond(p, Created, NoPerson, << >>)
             ELSE /\ Respond(p, Conflict, NoPerson, << >>)
                  /\ UNCHANGED << person_collection, created, tally, raced >>
        /\ pc' = [pc EXCEPT ![p] = "ret"]
        /\ UNCHANGED << writer, readers, poisoned, req, idx, served, pre >>

\* p.age = person.age
SetAge(coll, k, x) == [coll EXCEPT ![k].age = x.age]

\* Mutant of SetDate: the assignment is missing.
SetDateSkipped(coll, k, x) == coll

\* p.date = person.date
SetDate(coll, k, x) == [coll EXCEPT ![k].date = x.date]

\* p.name = person.name
SetName(coll, k, x) == [coll EXCEPT ![k].name = x.name]

\* PUT /api/person
update_person(p) ==
  /\ req[p].op = "update_person"
  /\ \/ /\ pc[p] = "lock"
        /\ WriteLock(p, "find")
     \/ /\ pc[p] = "find"
        /\ LET k == Position(person_collection, req[p].person.id)
           IN /\ idx' = [idx EXCEPT ![p] = k]
              /\ IF k # 0
                   THEN /\ pc' = [pc EXCEPT ![p] = "age"]
                        /\ UNCHANGED resp
                   ELSE /\ pc' = [pc EXCEPT ![p] = "ret"]
                        /\ Respond(p, NotFound, NoPerson, << >>)
        /\ UNCHANGED << person_collection, writer, readers, poisoned, req,
                        served, pre, created, tally, raced >>
     \/ /\ pc[p] = "age"
        /\ person_collection' = SetAge(person_collection, idx[p], req[p].person)
        /\ created' = [created EXCEPT ![req[p].person.id] = NoPerson]
        /\ pc' = [pc EXCEPT ![p] = "date"]
        /\ UNCHANGED << writer, readers, poisoned, req, idx, resp, served, pre,
                        tally, raced >>
     \/ /\ pc[p] = "date"
        /\ person_collection' = SetDate(person_collection, idx[p], req[p].person)
        /\ pc' = [pc EXCEPT ![p] = "name"]
        /\ UNCHANGED << writer, readers, poisoned, req, idx, resp, served, pre,
                        created, tally, raced >>
     \/ /\ pc[p] = "name"
        /\ person_collection' = SetName(person_collection, idx[p], req[p].person)
        /\ Respond(p, NoContent, NoPerson, << >>)
        /\ pc' = [pc EXCEPT ![p] = "ret"]
        /\ UNCHANGED << writer, readers, poisoned, req, idx, served, pre, created, tally, raced >>

\* DELETE /api/person/<id>
delete_person(p) ==
  /\ req[p].op = "delete_person"
  /\ \/ /\ pc[p] = "lock"
        /\ WriteLock(p, "position")
     \/ /\ pc[p] = "position"
        /\ LET k == Position(person_collection, req[p].id)
           IN /\ idx' = [idx EXCEPT ![p] = k]
              /\ IF k # 0
                   THEN /\ pc' = [pc EXCEPT ![p] = "remove"]
                        /\ UNCHANGED resp
                   ELSE /\ pc' = [pc EXCEPT ![p] = "ret"]
                        /\ Respond(p, NotFound, NoPerson, << >>)
        /\ UNCHANGED << person_collection, writer, readers, poisoned, req,
                        served, pre, created, tally, raced >>
     \/ /\ pc[p] = "remove"
        /\ IF idx[p] \in 1..Len(person_collection)
             THEN /\ person_collection' = Remove(person_collection, idx[p])
                  /\ created' = [created EXCEPT ![req[p].id] = NoPerson]
                  /\ tally' = [tally EXCEPT ![req[p].id] =
                                 [net |-> @.net - 1, payload |-> NoPerson]]
                  /\ raced' = [q \in Workers |->
                                 /\ raced[q]
                                 /\ req[q].person.id # req[p].id]
                  /\ Respond(p, NoContent, NoPerson, << >>)
                  /\ pc' = [pc EXCEPT ![p] = "ret"]
                  /\ UNCHANGED << writer, poisoned, req, idx, pre >>
             ELSE \* Vec::remove panics on index >= len: the guard is dropped in
                  \* the unwinding and the lock is poisoned
                  /\ poisoned' = TRUE
                  /\ writer' = None
                  /\ pre' = << >>
                  /\ Respond(p, InternalServerError, NoPerson, << >>)
                  /\ pc' = [pc EXCEPT ![p] = "done"]
                  /\ req' = [req EXCEPT ![p] = NoReq]
                  /\ idx' = [idx EXCEPT ![p] = 0]
                  /\ UNCHANGED << person_collection, created, tally, raced >>
        /\ UNCHANGED << readers, served >>

\* A thread that unwinds while it holds the write guard poisons the RwLock and
\* drops the guard; Rocket turns the panic into a 500 for that request.
WriterPanics(p) ==
  /\ writer = p
  /\ pc[p] \notin {"lock", "ret", "done", "idle"}
  /\ poisoned' = TRUE
  /\ writer' = None
  /\ pre' = << >>
  /\ Respond(p, InternalServerError, NoPerson, << >>)
  /\ pc' = [pc EXCEPT ![p] = "done"]
  /\ req' = [req EXCEPT ![p] = NoReq]
  /\ idx' = [idx EXCEPT ![p] = 0]
  /\ UNCHANGED << person_collection, readers, served, created, tally, raced >>

Init ==
  /\ person_collection = create_person_collection
  /\ writer = None
  /\ readers = {}
  /\ poisoned = FALSE
  /\ pc = [p \in Workers |-> "idle"]
  /\ req = [p \in Workers |-> NoReq]
  /\ idx = [p \in Workers |-> 0]
  /\ resp = [p \in Workers |-> NoResp]
  /\ served = 0
  /\ pre = << >>
  /\ created = [i \in Ids |-> NoPerson]
  /\ tally = [i \in Ids |-> [net |-> 0, payload |-> NoPerson]]
  /\ raced = [p \in Workers |-> FALSE]

Next ==
  \E p \in Workers :
    \/ Receive(p)
    \/ landing_page(p)
    \/ health(p)
    \/ persons(p)
    \/ single_person(p)
    \/ add_person(p)
    \/ update_person(p)
    \/ delete_person(p)
    \/ Return(p)

\* The service as written: the handlers alone.
Spec == Init /\ [][Next]_vars

\* The steps of the handler worker p is running (not the arrival of a request).
Step(p) ==
  \/ landing_page(p)
  \/ health(p)
  \/ persons(p)
  \/ single_person(p)
  \/ add_person(p)
  \/ update_person(p)
  \/ delete_person(p)
  \/ Return(p)

\* Fair scheduling of the workers: a worker whose next statement stays able to
\* run (a lock call: the lock stays free for it) eventually runs it.  Strong
\* fairness of lock acquisition is not needed while the requests are finitely
\* many, so the weaker assumption is the one stated.
SpecFair == Spec /\ \A p \in Workers : WF_vars(Step(p))

\* The writers alone, on the ids the seed does not hold: Creates, Updates and
\* Deletes of one id racing each other from a state where the id is absent.
RaceRequests ==
  {r \in Requests :
     /\ r.op \in {"add_person", "update_person", "delete_person"}
     /\ ~AnyId(create_person_collection, r.id)
     /\ ~AnyId(create_person_collection, r.person.id)}

ReceiveRace(p) == ReceiveFrom(p, RaceRequests, MaxRaceRequests)

NextRace ==
  \E p \in Workers :
    \/ ReceiveRace(p)
    \/ add_person(p)
    \/ update_person(p)
    \/ delete_person(p)
    \/ Return(p)

SpecRace == Init /\ [][NextRace]_vars

\* The service with a writer that may terminate abnormally in its critical
\* section (the only way std's RwLock becomes poisoned).
NextPoison == Next \/ \E p \in Workers : WriterPanics(p)

SpecPoison == Init /\ [][NextPoison]_vars

\* ================================================================ properties
\* What the properties say about a collection, stated without the handlers'
\* own helpers.
Present(coll, id) == \E k \in 1..Len(coll) : coll[k].id = id

IndexOf(coll, id) == CHOOSE k \in 1..Len(coll) : coll[k].id = id

Without(coll, id) == SelectSeq(coll, LAMBDA x : x.id # id)

WriteOps == {"add_person", "update_person", "delete_person"}
ReadOps == {"persons", "single_person"}

\* A worker is inside its critical section from the statement after the lock
\* call up to the return that drops the guard.
InCritical(p) == pc[p] \notin {"idle", "lock", "done"}
WriteHolders == {p \in Workers : req[p].op \in WriteOps /\ InCritical(p)}
ReadHolders == {p \in Workers : req[p].op \in ReadOps /\ InCritical(p)}

\* The worker has computed its result and still holds its guard.
AtReturn(p, op) == pc[p] = "ret" /\ req[p].op = op

\* The collection as the last completed write left it.
Committed == IF writer # None THEN pre ELSE person_collection

\* C1: in every reachable state the collection holds at most one record per id.
C1_UniqueIds ==
  \A j, k \in 1..Len(person_collection) :
    person_collection[j].id = person_collection[k].id => j = k

\* C1 witness: after a Create stored id 42, a second Create of 42 was rejected.
C1_Witness ==
  /\ Len(person_collection) = 3
  /\ \E p \in Workers :
       /\ AtReturn(p, "add_person")
       /\ req[p].person.id = 42
       /\ resp[p].status = Conflict

\* C2: a Create whose id was present when it took the lock leaves the collection
\* exactly as it was, and returns 409.
C2_DuplicateCreateConflicts ==
  \A p \in Workers :
    (req[p].op = "add_person" /\ InCritical(p) /\ Present(pre, req[p].person.id))
      => /\ person_collection = pre
         /\ pc[p] = "ret" => resp[p].status = Conflict

\* C2 witness: a Create of a seeded id, with different contents, got its 409.
C2_Witness ==
  \E p \in Workers :
    /\ AtReturn(p, "add_person")
    /\ resp[p].status = Conflict
    /\ Present(pre, req[p].person.id)
    /\ pre[IndexOf(pre, req[p].person.id)] # req[p].person

\* C3: what a List or Get has read is the collection as the last completed write
\* left it, and holds no record mixing old and new fields of an Update.
C3_NoTornRead ==
  \A p \in Workers :
    /\ AtReturn(p, "persons") =>
         /\ resp[p].list = Committed
         /\ \A k \in 1..Len(resp[p].list) : resp[p].list[k] \in Person
    /\ AtReturn(p, "single_person") =>
         IF Present(Committed, req[p].id)
           THEN /\ resp[p].person = Committed[IndexOf(Committed, req[p].id)]
                /\ resp[p].person \in Person
           ELSE resp[p].person = NoPerson

\* C3 witness: a List has read the collection while another worker's Update of
\* a listed record, with other contents, waits at its lock call.
C3_Witness ==
  \E p, q \in Workers :
    /\ AtReturn(p, "persons")
    /\ Len(resp[p].list) = 2
    /\ req[q].op = "update_person"
    /\ pc[q] = "lock"
    /\ req[q].person.id = resp[p].list[1].id
    /\ req[q].person # resp[p].list[1]

\* C4: a worker inside the critical section of Create, Update or Delete is the
\* only worker inside any critical section.
C4_WriterExcludesAll ==
  \A p \in WriteHolders : WriteHolders = {p} /\ ReadHolders = {}

\* C4 witness: two readers are inside their critical sections together.
C4_Witness == Cardinality(ReadHolders) >= 2

\* C5: an Update that returns 204 has replaced name, age and date of the record
\* with its id, in place, and changed nothing else.
C5_UpdateInPlace ==
  \A p \in Workers :
    (AtReturn(p, "update_person") /\ resp[p].status = NoContent)
      => /\ Present(pre, req[p].person.id)
         /\ LET k == IndexOf(pre, req[p].person.id)
            IN person_collection =
                 [pre EXCEPT ![k] = [id |-> pre[k].id,
                                     name |-> req[p].person.name,
                                     age |-> req[p].person.age,
                                     date |-> req[p].person.date]]

\* C5 witness: an Update changed the second record and left the first.
C5_Witness ==
  \E p \in Workers :
    /\ AtReturn(p, "update_person")
    /\ resp[p].status = NoContent
    /\ IndexOf(pre, req[p].person.id) = 2
    /\ person_collection[2] # pre[2]
    /\ person_collection[2].id = pre[2].id

\* C6: a Delete that returns 204 has removed exactly the record with its id and
\* kept the others, values and order.
C6_DeleteExact ==
  \A p \in Workers :
    (AtReturn(p, "delete_person") /\ resp[p].status = NoContent)
      => /\ ~Present(person_collection, req[p].id)
         /\ Len(person_collection) = Len(pre) - 1
         /\ person_collection = Without(pre, req[p].id)

\* C6 witness: the first of three records was deleted.
C6_Witness ==
  \E p \in Workers :
    /\ AtReturn(p, "delete_person")
    /\ resp[p].status = NoContent
    /\ Len(pre) = 3
    /\ pre[1].id = req[p].id
    /\ person_collection = << pre[2], pre[3] >>

\* The id a Get, Update or Delete is about.
TargetId(p) ==
  IF req[p].op = "update_person" THEN req[p].person.id ELSE req[p].id

\* The collection as the worker found it when it took its guard.
AsLocked(p) ==
  IF req[p].op = "single_person" THEN person_collection ELSE pre

\* C7: Get, Update and Delete return 404 exactly when no record has the id while
\* the lock is held, and then the collection is unchanged.
C7_NotFound ==
  \A p \in Workers :
    (pc[p] = "ret" /\ req[p].op \in {"single_person", "update_person", "delete_person"})
      => /\ resp[p].status = NotFound <=> ~Present(AsLocked(p), TargetId(p))
         /\ resp[p].status = NotFound => person_collection = Committed

\* C7 witness: an Update of an id that an earlier Delete removed got its 404.
C7_Witness ==
  \E p \in Workers :
    /\ AtReturn(p, "update_person")
    /\ resp[p].status = NotFound
    /\ Present(create_person_collection, req[p].person.id)

\* C8: a Create whose id was absent when it took the lock returns 201 and has
\* appended its record as the last element.
C8_CreateAppends ==
  \A p \in Workers :
    (AtReturn(p, "add_person") /\ ~Present(pre, req[p].person.id))
      => /\ resp[p].status = Created
         /\ person_collection = Append(pre, req[p].person)

\* C8 witness: a record was appended behind the two seeded ones.
C8_Witness ==
  \E p \in Workers :
    /\ AtReturn(p, "add_person")
    /\ resp[p].status = Created
    /\ Len(person_collection) = 3
    /\ person_collection[3] = req[p].person

C10_PoisonedMeans500 ==
  [][poisoned =>
       /\ poisoned'
       /\ person_collection' = person_collection
       /\ \A p \in Workers :
            /\ ~InCritical(p)'
            /\ (req[p].op \in ReadOps \cup WriteOps /\ pc[p] = "lock" /\ pc'[p] # "lock")
                 => (pc'[p] = "done" /\ resp'[p].status = InternalServerError)]_vars

\* C10 witness: after a writer panicked, the other worker's request got 500 too.
C10_Witness ==
  /\ poisoned
  /\ NumWorkers >= 2
  /\ \A p \in Workers : pc[p] = "done" /\ resp[p].status = InternalServerError

\* A request is in flight from its dispatch to its response.
InFlight(p) == pc[p] \notin {"idle", "done"}

\* C13: a worker that has returned its response, or has not yet passed its lock
\* call, holds no guard; with no request in flight the lock is held by nobody.
C13_GuardReleasedOnReturn ==
  /\ \A p \in Workers : ~InCritical(p) => (writer # p /\ p \notin readers)
  /\ (\A p \in Workers : ~InFlight(p)) => (writer = None /\ readers = {})

\* C13 witness: a Create has returned 409 and an Update 404 (or a Get or Delete
\* 404), nothing is in flight and the lock is free.
C13_Witness ==
  /\ \A p \in Workers : pc[p] = "done"
  /\ \E p, q \in Workers : resp[p].status = Conflict /\ resp[q].status = NotFound
  /\ writer = None
  /\ readers = {}

\* C14: under fair scheduling every request that was dispatched gets its
\* response: from some point on no request is in flight (the dispatched
\* requests are finitely many), so no worker is left waiting and no state with
\* a request in flight is a deadlock.
C14_EveryRequestReturns ==
  <>[](\A p \in Workers : ~InFlight(p))

\* C14 witness: a writer waits at its lock call while a reader holds the lock.
C14_Witness ==
  \E p, q \in Workers :
    /\ pc[p] = "lock"
    /\ req[p].op \in WriteOps
    /\ q \in readers
    /\ InCritical(q)

\* The sequential store: what one operation, run alone on collection coll,
\* leaves behind and returns.
SeqColl(coll, r) ==
  CASE r.op = "add_person" ->
         IF Present(coll, r.person.id) THEN coll ELSE Append(coll, r.person)
    [] r.op = "update_person" ->
         IF Present(coll, r.person.id)
           THEN [coll EXCEPT ![IndexOf(coll, r.person.id)] =
                   [id |-> @.id, name |-> r.person.name, age |-> r.person.age,
                    date |-> r.person.date]]
           ELSE coll
    [] r.op = "delete_person" -> Without(coll, r.id)
    [] OTHER -> coll

SeqStatus(coll, r) ==
  CASE r.op = "add_person" ->
         IF Present(coll, r.person.id) THEN Conflict ELSE Created
    [] r.op = "update_person" ->
         IF Present(coll, r.person.id) THEN NoContent ELSE NotFound
    [] r.op = "delete_person" ->
         IF Present(coll, r.id) THEN NoContent ELSE NotFound
    [] r.op = "single_person" ->
         IF Present(coll, r.id) THEN Ok ELSE NotFound
    [] OTHER -> Ok

SeqResp(coll, r) ==
  [status |-> SeqStatus(coll, r),
   person |-> IF r.op = "single_person" /\ Present(coll, r.id)
                THEN coll[IndexOf(coll, r.id)] ELSE NoPerson,
   list |-> IF r.op = "persons" THEN coll ELSE << >>]

\* The worker returns: its operation takes effect.
Returns(p) == pc[p] = "ret" /\ pc'[p] = "done"

\* C11: the committed collection changes only when a writer returns, one writer
\* at a time, and every request leaves the collection and returns the status
\* and body that the sequential store gives for it on the collection committed
\* when it held the lock.
C11_Sequential ==
  [][/\ \A p \in Workers :
          Returns(p) => /\ resp[p] = SeqResp(Committed, req[p])
                        /\ Committed' = SeqColl(Committed, req[p])
     /\ Committed' # Committed =>
          \E p \in Workers :
            /\ Returns(p)
            /\ req[p].op \in WriteOps
            /\ \A q \in Workers \ {p} : ~Returns(q)]_vars

\* C11 witness: a Delete is about to return after an earlier write took effect.
C11_Witness ==
  \E p \in Workers :
    /\ AtReturn(p, "delete_person")
    /\ pre # create_person_collection
    /\ resp[p].status = NoContent
    /\ person_collection = SeqColl(pre, req[p])

\* C12: List answers 200 with the whole collection in its order, Get answers 200
\* with the record of the id; no step of a List or a Get changes the collection;
\* a response, once produced, is not changed by anything that happens later.
C12_ReadOnlySnapshots ==
  [][\A p \in Workers :
       /\ (req[p].op \in ReadOps /\ pc'[p] # pc[p])
            => person_collection' = person_collection
       /\ (req[p].op = "persons" /\ pc[p] = "clone" /\ pc'[p] = "ret")
            => resp'[p] = [status |-> Ok, person |-> NoPerson,
                           list |-> person_collection]
       /\ (req[p].op = "single_person" /\ pc[p] = "find" /\ pc'[p] = "ret"
             /\ Present(person_collection, req[p].id))
            => resp'[p] = [status |-> Ok,
                           person |-> person_collection[
                                        IndexOf(person_collection, req[p].id)],
                           list |-> << >>]
       /\ (pc[p] \in {"ret", "done"} /\ pc'[p] \in {"ret", "done"})
            => resp'[p] = resp[p]]_vars

\* C12 witness: a List response is still the two seeded records after a later
\* write changed the collection.
C12_Witness ==
  \E p \in Workers :
    /\ pc[p] = "done"
    /\ resp[p].status = Ok
    /\ resp[p].list = create_person_collection
    /\ person_collection # create_person_collection
    /\ writer = None

\* How many records of coll carry the id.
Count(coll, id) == Cardinality({k \in 1..Len(coll) : coll[k].id = id})

\* The part of C15 that does not depend on what else touched the record: per
\* id the 201s and the Delete 204s balance with the id's presence, so between
\* two Deletes of an id at most one Create of it returns 201 and between two
\* Creates at most one Delete returns 204; the others return 409 and 404.
OneWinner ==
  /\ \A i \in Ids :
       /\ Count(person_collection, i) <= 1
       /\ tally[i].net = Count(person_collection, i)
                           - Count(create_person_collection, i)
  /\ \A p \in Workers :
       /\ AtReturn(p, "add_person") =>
            \/ /\ resp[p].status = Created
               /\ ~Present(pre, req[p].person.id)
               /\ tally[req[p].person.id].payload = req[p].person
            \/ /\ resp[p].status = Conflict
               /\ Present(pre, req[p].person.id)
       /\ AtReturn(p, "delete_person") =>
            \/ /\ resp[p].status = NoContent
               /\ Present(pre, req[p].id)
               /\ ~Present(person_collection, req[p].id)
            \/ /\ resp[p].status = NotFound
               /\ ~Present(pre, req[p].id)

\* The record of id i is exactly x.
Holds(i, x) ==
  /\ Count(person_collection, i) = 1
  /\ person_collection[IndexOf(person_collection, i)] = x

\* A Create that was in flight while another Create of its id returned 201 is
\* about to return.
RaceLost(p) == AtReturn(p, "add_person") /\ raced[p]

\* C15 as stated: a Create that raced a Create of its id that returned 201
\* returns 409, and with no Delete of the id since that 201 the collection
\* then holds for the id exactly one record, the payload of the 201.
C15_AsStated ==
  /\ OneWinner
  /\ \A p \in Workers :
       RaceLost(p)
         => /\ resp[p].status = Conflict
            /\ tally[req[p].person.id].payload # NoPerson
            /\ Holds(req[p].person.id, tally[req[p].person.id].payload)

\* C15 amended: the same with no Delete and no Update of the id since the 201.
C15_OneWinnerKeepsPayload ==
  /\ OneWinner
  /\ \A p \in Workers :
       RaceLost(p)
         => /\ resp[p].status = Conflict
            /\ tally[req[p].person.id].payload # NoPerson
            /\ created[req[p].person.id] # NoPerson
                 => Holds(req[p].person.id, tally[req[p].person.id].payload)
  /\ \A i \in Ids : created[i] # NoPerson => Holds(i, created[i])

\* C15 witness: a Create that raced the Create that returned 201, with other
\* contents, has its 409 and the record is the payload of the 201.
C15_Witness ==
  \E p \in Workers :
    /\ RaceLost(p)
    /\ resp[p].status = Conflict
    /\ created[req[p].person.id] # NoPerson
    /\ created[req[p].person.id] # req[p].person
    /\ Holds(req[p].person.id, created[req[p].person.id])

\* C16: the handlers never poison the lock and never return 500, and the index
\* Delete passes to remove is a position of the collection, that of its id.
C16_NoPanic ==
  /\ ~poisoned
  /\ \A p \in Workers :
       /\ resp[p].status # InternalServerError
       /\ (req[p].op = "delete_person" /\ pc[p] = "remove") =>
            /\ idx[p] \in 1..Len(person_collection)
            /\ person_collection[idx[p]].id = req[p].id

\* C16 witness: Delete is about to remove the last of three records.
C16_Witness ==
  \E p \in Workers :
    /\ req[p].op = "delete_person"
    /\ pc[p] = "remove"
    /\ Len(person_collection) = 3
    /\ idx[p] = 3

StaticOps == {"landing_page", "health"}

\* C17: Landing and Health can always answer at once, whoever holds the lock
\* and poisoned or not; their step answers 200 and changes neither the
\* collection nor the lock.
C17_StaticHandlers ==
  [][\A p \in Workers :
       (req[p].op \in StaticOps /\ pc[p] = "lock") =>
         /\ ENABLED (landing_page(p) \/ health(p))
         /\ pc'[p] # pc[p] =>
              /\ pc'[p] = "done"
              /\ resp'[p].status = Ok
              /\ UNCHANGED << person_collection, writer, readers, poisoned >>]_vars

\* C17 witness: the one worker that has served requests poisoned the lock with
\* its first and then answered 200, which only Landing and Health can.
C17_Witness ==
  /\ poisoned
  /\ \E q \in Workers :
       /\ pc[q] = "done"
       /\ resp[q].status = Ok
       /\ \A p \in Workers \ {q} : pc[p] = "idle"
====
